---- MODULE Spec2Model ----
(***************************************************************************)
(* Lead staging pipeline of the Takeout chatbot (src/boh_db.py) and the    *)
(* part of the message handler that calls it (src/app.py).                 *)
(*                                                                         *)
(* One call of send_lead_to_kitchen is a coroutine: it runs atomically     *)
(* from one await of a storage operation to the next.  The steps are       *)
(*   send_lead_to_kitchen  entry, configuration check, get_boh_session     *)
(*   get_default_campaign  result of the campaign query, key construction  *)
(*   check_duplicate       result of the duplicate query, row construction *)
(*   stage_lead_direct     result of session.commit()                      *)
(* Calls of different handler runs interleave at these points.             *)
(*                                                                         *)
(* A call is made by a run of the message handler main (on_message), which *)
(* reads the session's lead_submitted flag, awaits the model's response    *)
(* and, on a submit_lead tool use, calls send_lead_to_kitchen and sets the *)
(* flag as soon as the call returns.  The run saves its entries in the     *)
(* session's history, which all runs of the session share.                 *)
(*                                                                         *)
(* Before its first message a session goes through the structured flow of  *)
(* cl.on_chat_start (start, ask_location, ask_timeline, ask_budget), one   *)
(* step per prompt, which fills the session's lead_data and hands over to  *)
(* the conversation with start_conversation.                               *)
(*                                                                         *)
(* Specifications:                                                         *)
(*   Spec          concurrent runs up to the await of the follow-up        *)
(*   SpecChat      concurrent runs to their end, with the history          *)
(*   SpecWide      one run alone over every input and provisioning         *)
(*   SpecMerge     one run alone, a contact already in lead_data           *)
(*   SpecFlow      the structured flow of one session and its first message*)
(*   SpecFlowFair  the same, every pending prompt resumed                  *)
(***************************************************************************)
EXTENDS Integers, Sequences, FiniteSets, TLC

VARIABLES
    BOH_DATABASE_URL,   \* the connection string read at import, or None
    _engine,            \* module global _engine
    _session_factory,   \* module global _session_factory
    campaigns,          \* rows of the campaigns relation
    leads,              \* committed rows of the leads relation
    calls,              \* one record per call of send_lead_to_kitchen
    now,                \* the current reading of datetime.utcnow()
    listening,          \* subscribers connected to the new_lead channel
    notified,           \* notifications delivered: <<lead id, subscriber>>
    lead_submitted,     \* cl.user_session "lead_submitted" of each session
    pool_calls,         \* how often create_async_engine / async_sessionmaker ran
    flow,               \* where the chat-start flow of each session stands
    session_lead_data,  \* cl.user_session "lead_data" of each session
    history             \* cl.user_session "history" of each session

vars == <<BOH_DATABASE_URL, _engine, _session_factory, campaigns, leads,
          calls, now, listening, notified, lead_submitted, pool_calls,
          flow, session_lead_data, history>>

----------------------------------------------------------------------------
(* Bounds *)

MaxCalls == 2
MaxClock == 1

Calls == 1 .. MaxCalls

----------------------------------------------------------------------------
(* Values *)

\* Python None, for string-valued things (dict values, returned ids).
None == "None"
\* None where the code holds a tuple or None (campaign_info).
NoRow == << >>
\* The empty dict {}.
EmptyDict == [k \in {} |-> None]
\* JSON null in place of the contact object: contact.get raises AttributeError.
NullObject == [null |-> "null"]

\* str(uuid4()) of on_chat_start, named in the order the sessions first call.
SessionIds == <<"sess-a", "sess-b", "sess-c", "sess-d">>
Sessions == {SessionIds[i] : i \in 1 .. 2}
Subscribers == {"kitchen"}

\* uuid4(): a value no other call of uuid4 returns.
UUIDs == <<"lead-1", "lead-2", "lead-3", "lead-4">>

\* Variant: every call of uuid4 returns the same value.
uuid4_Fixed(p) == UUIDs[1]

uuid4(p) == UUIDs[p]

\* dict.get(key, default)
Get(d, k, default) == IF k \in DOMAIN d THEN d[k] ELSE default

\* Python truthiness of a str | None value
Truthy(v) == v # None /\ v # ""

----------------------------------------------------------------------------
(* The campaigns relation (CampaignORM) as Kitchen provisions it *)

CampOtherA == [id |-> "camp-1", ticket_id |-> "ticket-1", brand_id |-> "brand-a", platform |-> "other"]
CampOtherB == [id |-> "camp-2", ticket_id |-> "ticket-2", brand_id |-> "brand-b", platform |-> "other"]
CampFacebook == [id |-> "camp-3", ticket_id |-> "ticket-3", brand_id |-> "brand-a", platform |-> "facebook"]

\* Provisionings: none, no default campaign, one default campaign.
CampaignConfigs == { {}, {CampFacebook}, {CampOtherA, CampFacebook} }
\* and, for the single-call specification, two default campaigns as well.
CampaignConfigsWide == CampaignConfigs \cup { {CampOtherA, CampOtherB, CampFacebook} }

\* A row another intake channel staged: the store is shared with Kitchen.
KitchenLead ==
    [ id |-> "lead-k", campaign_id |-> "camp-3", ticket_id |-> "ticket-3",
      brand_id |-> "brand-a", platform |-> "facebook", platform_lead_id |-> <<"fb", "fb-1", 0>>,
      form_data |-> [name |-> "Kim", email |-> "", phone |-> ""],
      status |-> "delivered", captured_at |-> 0, staged_at |-> 0, delivered_at |-> "0",
      estimated_cost |-> None, metadata_json |-> EmptyDict, is_waste |-> FALSE,
      waste_reason |-> None, waste_details |-> None, menu_item |-> "dscr_refi",
      quarters_sold |-> 1, quarters_remaining |-> 3 ]

----------------------------------------------------------------------------
(* Pure functions *)

\* Variant: the fallback category is the purchase one.
map_loan_type_to_menu_item_PurchaseDefault(loan_type) ==
    LET key == IF loan_type # "None" /\ loan_type # "" THEN loan_type ELSE ""
        mapping == [purchase |-> "dscr_purchase", cashout |-> "dscr_cashout",
                    refinance |-> "dscr_refi"]
    IN  IF key \in DOMAIN mapping THEN mapping[key] ELSE "dscr_purchase"

\* map_loan_type_to_menu_item: mapping.get(loan_type or "", "dscr_refi")
map_loan_type_to_menu_item(loan_type) ==
    LET key == IF Truthy(loan_type) THEN loan_type ELSE ""
        mapping == [purchase |-> "dscr_purchase", cashout |-> "dscr_cashout",
                    refinance |-> "dscr_refi"]
    IN  Get(mapping, key, "dscr_refi")

\* Variant: {**block.input, **structured_data}, the button data win.
MergeLead_ButtonsWin(structured_data, block_input) ==
    [k \in DOMAIN structured_data \cup DOMAIN block_input |->
        IF k \in DOMAIN structured_data THEN structured_data[k] ELSE block_input[k]]

\* {**structured_data, **block.input}
MergeLead(structured_data, block_input) ==
    [k \in DOMAIN structured_data \cup DOMAIN block_input |->
        IF k \in DOMAIN block_input THEN block_input[k] ELSE structured_data[k]]

\* contact.get raises when contact is not a dict
ContactRaises(lead_data) == Get(lead_data, "contact", EmptyDict) = NullObject

\* form_data built by send_lead_to_kitchen
FormData(lead_data) ==
    LET contact == Get(lead_data, "contact", EmptyDict)
    IN  [name |-> Get(contact, "name", ""),
         email |-> Get(contact, "email", ""),
         phone |-> Get(contact, "phone", "")]

\* metadata built by send_lead_to_kitchen
Metadata(lead_data, session_id) ==
    [budget_min |-> Get(lead_data, "budget_min", None),
     budget_max |-> Get(lead_data, "budget_max", None),
     timeline |-> Get(lead_data, "timeline", None),
     loan_type |-> Get(lead_data, "loan_type", None),
     session_id |-> session_id]

\* Variant: geo is stored whatever its value.
LeadMetadata_GeoAlways(metadata, geo) ==
    [k \in DOMAIN metadata \cup {"intake_source", "intake_platform", "geo"} |->
        IF k = "intake_source" THEN "takeout_chatbot"
        ELSE IF k = "intake_platform" THEN "takeout"
        ELSE IF k = "geo" THEN geo
        ELSE metadata[k]]

\* lead_metadata built by stage_lead_direct
LeadMetadata(metadata, geo) ==
    LET base == [k \in DOMAIN metadata \cup {"intake_source", "intake_platform"} |->
                    IF k = "intake_source" THEN "takeout_chatbot"
                    ELSE IF k = "intake_platform" THEN "takeout"
                    ELSE metadata[k]]
    IN  IF Truthy(geo)
        THEN [k \in DOMAIN base \cup {"geo"} |-> IF k = "geo" THEN geo ELSE base[k]]
        ELSE base

\* Variant: the key leaves the session id out.
PlatformLeadId_NoSession(session_id, timestamp) == <<"takeout", "", timestamp>>

\* Variant: the key leaves the clock reading out.
PlatformLeadId_NoTimestamp(session_id, timestamp) == <<"takeout", session_id, 0>>

\* f"takeout_{session_id}_{datetime.utcnow().timestamp()}"
PlatformLeadId(session_id, timestamp) == <<"takeout", session_id, timestamp>>

\* Variant: ticket_id is filled from the campaign's id.
LeadRow_TicketFromCampaign(lead_id, t, campaign_info, menu_item, platform_lead_id, form_data, geo, metadata) ==
    [ id |-> lead_id, campaign_id |-> campaign_info[1], ticket_id |-> campaign_info[1],
      brand_id |-> campaign_info[3], platform |-> "takeout",
      platform_lead_id |-> platform_lead_id, form_data |-> form_data,
      status |-> "staged", captured_at |-> t, staged_at |-> t, delivered_at |-> None,
      estimated_cost |-> None, metadata_json |-> LeadMetadata(metadata, geo),
      is_waste |-> FALSE, waste_reason |-> None, waste_details |-> None,
      menu_item |-> menu_item, quarters_sold |-> 0, quarters_remaining |-> 4 ]

\* The LeadORM row stage_lead_direct constructs
LeadRow(lead_id, t, campaign_info, menu_item, platform_lead_id, form_data, geo, metadata) ==
    [ id |-> lead_id, campaign_id |-> campaign_info[1], ticket_id |-> campaign_info[2],
      brand_id |-> campaign_info[3], platform |-> "takeout",
      platform_lead_id |-> platform_lead_id, form_data |-> form_data,
      status |-> "staged", captured_at |-> t, staged_at |-> t, delivered_at |-> None,
      estimated_cost |-> None, metadata_json |-> LeadMetadata(metadata, geo),
      is_waste |-> FALSE, waste_reason |-> None, waste_details |-> None,
      menu_item |-> menu_item, quarters_sold |-> 0, quarters_remaining |-> 4 ]

----------------------------------------------------------------------------
(* Inputs of the handler: button-flow data and the model's tool input *)

SdButtons == [loan_type |-> "refi", geo |-> "TX", timeline |-> "asap",
              budget_min |-> "100000", budget_max |-> "250000"]
SdNoGeo == [loan_type |-> "purchase", geo |-> None]

BiName == [contact |-> [name |-> "Jane"]]
BiNullContact == [contact |-> NullObject]

\* The pairs the concurrent specification draws from: one that stages and
\* one whose contact makes the row construction raise.
LeadCases == { <<SdButtons, BiName>>, <<SdNoGeo, BiNullContact>> }


\* d restricted to the keys in ks
Restrict(d, ks) == [k \in ks |-> d[k]]

\* What the button flow (start, ask_location, ask_timeline, ask_budget) can
\* leave in the session's lead_data: nothing after a timeout of the first
\* prompt, the loan type alone after a timeout of the location prompt, and
\* otherwise loan type and geo (a state code or None), with the timeline and
\* the budget range when those prompts were answered.
StructuredWide ==
    {EmptyDict} \cup
    { [loan_type |-> lt] : lt \in {"purchase", "refi"} } \cup
    { Restrict([loan_type |-> lt, geo |-> g, timeline |-> "asap",
                budget_min |-> "100000", budget_max |-> "250000"], ks) :
        lt \in {"purchase", "cashout", "refi"}, g \in {"TX", None},
        ks \in { {"loan_type", "geo"}, {"loan_type", "geo", "timeline"},
                 {"loan_type", "geo", "budget_min", "budget_max"},
                 {"loan_type", "geo", "timeline", "budget_min", "budget_max"} } }

\* Tool inputs of submit_lead: every field optional in what the model sends.
ContactWide == { EmptyDict, NullObject, [name |-> "Jane"],
                 [name |-> "Jane", email |-> "jane@x.io", phone |-> "555"] }

InputWide ==
    { Restrict([loan_type |-> lt, geo |-> g, timeline |-> "30 days",
                budget_min |-> "200000", budget_max |-> "500000", contact |-> ct], ks) :
        lt \in {"cashout", "refinance", "garbage"}, g \in {"FL", ""}, ct \in ContactWide,
        ks \in SUBSET {"loan_type", "geo", "budget_min", "contact"} }

----------------------------------------------------------------------------
(* The structured flow: values and pure functions *)

\* US_STATES
US_STATES ==
    { "AL", "AK", "AZ", "AR", "CA", "CO", "CT", "DE", "FL", "GA",
      "HI", "ID", "IL", "IN", "IA", "KS", "KY", "LA", "ME", "MD",
      "MA", "MI", "MN", "MS", "MO", "MT", "NE", "NV", "NH", "NJ",
      "NM", "NY", "NC", "ND", "OH", "OK", "OR", "PA", "RI", "SC",
      "SD", "TN", "TX", "UT", "VT", "VA", "WA", "WV", "WI", "WY", "DC" }

\* The payloads of the action buttons
LoanButtons == {"purchase", "cashout", "refi"}
GeoButtons == {"TX", "FL", "CA", "other"}
TimelineButtons == {"asap", "1-3mo", "3-6mo", "6+mo"}
BudgetButtons == { <<"100000", "250000">>, <<"250000", "500000">>,
                   <<"500000", "1000000">>, <<"1000000", "5000000">> }

\* What the user may type at the free-text prompt
TextAnswers == {"ny", " oh ", "GA", "Georgia", "new york", "zz", "t", "", "  "}

\* str.strip(), for blanks
RECURSIVE LStrip(_)
LStrip(str) ==
    IF Len(str) > 0 /\ SubSeq(str, 1, 1) = " " THEN LStrip(SubSeq(str, 2, Len(str))) ELSE str
RECURSIVE RStrip(_)
RStrip(str) ==
    IF Len(str) > 0 /\ SubSeq(str, Len(str), Len(str)) = " "
    THEN RStrip(SubSeq(str, 1, Len(str) - 1)) ELSE str
Strip(str) == RStrip(LStrip(str))

\* str.upper()
UpperOf ==
    [a |-> "A", b |-> "B", c |-> "C", d |-> "D", e |-> "E", f |-> "F", g |-> "G",
     h |-> "H", i |-> "I", j |-> "J", k |-> "K", l |-> "L", m |-> "M", n |-> "N",
     o |-> "O", p |-> "P", q |-> "Q", r |-> "R", s |-> "S", t |-> "T", u |-> "U",
     v |-> "V", w |-> "W", x |-> "X", y |-> "Y", z |-> "Z"]
RECURSIVE Upper(_)
Upper(str) ==
    IF Len(str) = 0 THEN str
    ELSE (IF SubSeq(str, 1, 1) \in DOMAIN UpperOf THEN UpperOf[SubSeq(str, 1, 1)]
          ELSE SubSeq(str, 1, 1)) \o Upper(SubSeq(str, 2, Len(str)))

\* str[:2]
FirstTwo(str) == IF Len(str) <= 2 THEN str ELSE SubSeq(str, 1, 2)

\* text_res.get("output", "").strip().upper()[:2]
NormalizeState(output) == FirstTwo(Upper(Strip(output)))

\* lead_data[key] = value
SetKey(d, key, value) == [x \in DOMAIN d \cup {key} |-> IF x = key THEN value ELSE d[x]]

----------------------------------------------------------------------------

(* State of one call *)

IdleCall ==
    [ pc |-> "idle", session_id |-> None, structured_data |-> EmptyDict,
      block_input |-> EmptyDict, lead_data |-> EmptyDict, campaign_info |-> NoRow,
      platform_lead_id |-> NoRow, lead |-> NoRow, ret |-> None, outcome |-> None,
      error |-> None, tools |-> FALSE, timestamp |-> None, followup |-> FALSE ]

\* cl.user_session.get("lead_submitted", False) of every session
NotSubmitted == [s \in {SessionIds[i] : i \in DOMAIN SessionIds} |-> FALSE]

\* Entries of a session's history: <<role, kind of content, id>>, the id
\* being the run that appended the entry (the id of its tool_use block for
\* the two tool entries) and 0 for the intro of the chat-start flow.
Intro == <<"assistant", "intro", 0>>
UserMessage(p) == <<"user", "message", p>>
AssistantText(p) == <<"assistant", "text", p>>
ToolUse(p) == <<"assistant", "tool_use", p>>
ToolResult(p) == <<"user", "tool_result", p>>

\* Sessions whose chat-start flow has handed over to the conversation
FlowsFinished == [s \in DOMAIN NotSubmitted |-> "conversation"]
IntroSaid == [s \in DOMAIN NotSubmitted |-> <<Intro>>]

\* lead_data when one session alone has gone through its flow
OneSession(sd) == [s \in DOMAIN NotSubmitted |-> IF s = SessionIds[1] THEN sd ELSE EmptyDict]

\* The button data of the sessions of the concurrent specification
ButtonData == [s \in DOMAIN NotSubmitted |-> IF s = SessionIds[1] THEN SdButtons ELSE SdNoGeo]

\* calls of create_async_engine, those of them that raised, and calls of
\* async_sessionmaker, since the module was imported
NoPoolCalls == [create_async_engine |-> 0, raised |-> 0, async_sessionmaker |-> 0]

Init ==
    /\ BOH_DATABASE_URL \in {None, "", "postgresql+asyncpg://boh"}
    /\ _engine = None
    /\ _session_factory = None
    /\ campaigns \in CampaignConfigs
    /\ leads = {KitchenLead}
    /\ calls = [p \in Calls |-> IdleCall]
    /\ now = 0
    /\ listening = {}
    /\ notified = {}
    /\ lead_submitted = NotSubmitted
    /\ pool_calls = NoPoolCalls
    /\ flow = FlowsFinished
    /\ session_lead_data = ButtonData
    /\ history = IntroSaid

UsedSessions == {calls[p].session_id : p \in {q \in Calls : calls[q].pc # "idle"}}

\* main, resumed with the value of send_lead_to_kitchen: both branches of
\* "if lead_id" set the session's lead_submitted before the next await.
mark_submitted(session_id, lead_id) ==
    lead_submitted' = [lead_submitted EXCEPT ![session_id] = TRUE]

\* Variant: the tool use is saved, its result is not.
append_tool_use_NoResult(h, p) == Append(h, ToolUse(p))

\* main, after the flag: history.append of the assistant content holding
\* the tool_use block, then of the user entry holding its tool_result
append_tool_use(h, p) == Append(Append(h, ToolUse(p)), ToolResult(p))

\* return <value> from send_lead_to_kitchen, along the path named by outcome;
\* the session is closed and the locals campaign_info and lead are gone.
\* The awaiting handler resumes in the same step and runs to its next
\* await, that of the follow-up response.
Return(p, c, value, outcome) ==
    /\ calls' = [calls EXCEPT ![p] = [c EXCEPT !.pc = "done", !.ret = value, !.outcome = outcome,
                                               !.campaign_info = NoRow, !.lead = NoRow]]
    /\ mark_submitted(c.session_id, value)
    /\ history' = [history EXCEPT ![c.session_id] = append_tool_use(@, p)]

\* Variant: the handler re-raises, the exception leaves send_lead_to_kitchen.
Except_Reraise(p, c, e) ==
    /\ calls' = [calls EXCEPT ![p] = [c EXCEPT !.pc = "raised", !.error = e]]
    /\ UNCHANGED <<lead_submitted, history>>

\* except Exception as e: print(f"ERROR staging lead: {e}"); return None
\* (e names the operation that raised)
Except(p, c, e) == Return(p, [c EXCEPT !.error = e], None, "failed")

\* Variant: if BOH_DATABASE_URL is None, negated: an empty string passes.
Configured_IsNotNone == BOH_DATABASE_URL # "None"

\* if not BOH_DATABASE_URL, negated
Configured == Truthy(BOH_DATABASE_URL)

\* Variant: the factory is built on every call.
FactoryMissing_Always == TRUE

\* if _session_factory is None
FactoryMissing == _session_factory = None

\* if _engine is None
EngineMissing == _engine = None

\* Variant: the query without its where clause.
DefaultCampaignRows_NoFilter == campaigns

\* select(CampaignORM...).where(CampaignORM.platform == "other")
DefaultCampaignRows == {r \in campaigns : r.platform = "other"}

\* Variant: the query compares the platform with the campaign marker.
DuplicateRows_OtherPlatform(platform, platform_lead_id) ==
    {l \in leads : l.platform = "other" /\ l.platform_lead_id = platform_lead_id}

\* select(LeadORM.id).where(LeadORM.platform == platform,
\*                          LeadORM.platform_lead_id == platform_lead_id)
DuplicateRows(platform, platform_lead_id) ==
    {l \in leads : l.platform = platform /\ l.platform_lead_id = platform_lead_id}

----------------------------------------------------------------------------
(* The notification trigger of the shared store *)

\* pg_notify('new_lead', lead_id) at commit: one delivery per connected listener
pg_notify(lead_id) == {<<lead_id, s>> : s \in listening}

\* Kitchen's NotifyListener connects to the channel
Listen(s) ==
    /\ s \notin listening
    /\ listening' = listening \cup {s}
    /\ UNCHANGED <<flow, session_lead_data,
                   BOH_DATABASE_URL, _engine, _session_factory, campaigns, leads,
                   calls, now, notified, lead_submitted, pool_calls, history>>

\* and disconnects from it
Unlisten(s) ==
    /\ s \in listening
    /\ listening' = listening \ {s}
    /\ UNCHANGED <<flow, session_lead_data,
                   BOH_DATABASE_URL, _engine, _session_factory, campaigns, leads,
                   calls, now, notified, lead_submitted, pool_calls, history>>

----------------------------------------------------------------------------
(* The clock *)

Tick ==
    /\ now < MaxClock
    /\ now' = now + 1
    /\ UNCHANGED <<flow, session_lead_data,
                   BOH_DATABASE_URL, _engine, _session_factory, campaigns, leads,
                   calls, listening, notified, lead_submitted, pool_calls, history>>

----------------------------------------------------------------------------
(* send_lead_to_kitchen, step by step *)

\* main up to its first await: the run reads session_id and lead_submitted
\* and asks the model, offering the submit_lead tool unless the flag is set.
\* Runs are numbered in the order they start, sessions in the order they
\* first send a message.
on_message(p, session_id) ==
    /\ calls[p].pc = "idle"
    /\ \A q \in Calls : q < p => calls[q].pc # "idle"
    /\ session_id \in UsedSessions \cup {SessionIds[Cardinality(UsedSessions) + 1]}
    /\ flow[session_id] = "conversation"
    /\ calls' = [calls EXCEPT ![p] = [IdleCall EXCEPT !.pc = "main",
                                                      !.session_id = session_id,
                                                      !.tools = ~lead_submitted[session_id]]]
    /\ history' = [history EXCEPT ![session_id] = Append(@, UserMessage(p))]
    /\ UNCHANGED <<flow, session_lead_data, BOH_DATABASE_URL, _engine, _session_factory,
                   campaigns, leads, now, listening, notified, lead_submitted, pool_calls>>

\* The response holds no submit_lead tool use: the run saves the text and ends.
text_response(p) ==
    /\ calls[p].pc = "main"
    /\ calls' = [calls EXCEPT ![p].pc = "text"]
    /\ history' = [history EXCEPT ![calls[p].session_id] = Append(@, AssistantText(p))]
    /\ UNCHANGED <<flow, session_lead_data, BOH_DATABASE_URL, _engine, _session_factory,
                   campaigns, leads, now, listening, notified, lead_submitted, pool_calls>>

\* The follow-up response after the tool result arrives: its text is saved
\* and the run ends.
followup(p) ==
    /\ calls[p].pc = "done"
    /\ ~calls[p].followup
    /\ calls' = [calls EXCEPT ![p].followup = TRUE]
    /\ \/ \* followup.content[0] is a text block
          history' = [history EXCEPT ![calls[p].session_id] = Append(@, AssistantText(p))]
       \/ \* it is not: nothing is saved
          UNCHANGED history
    /\ UNCHANGED <<flow, session_lead_data, BOH_DATABASE_URL, _engine, _session_factory,
                   campaigns, leads, now, listening, notified, lead_submitted, pool_calls>>

\* The response holds a submit_lead tool use: the handler merges the button
\* data with the tool input and calls send_lead_to_kitchen(lead_data,
\* session_id); the call runs to its first await.
send_lead_to_kitchen(p, session_id, structured_data, block_input) ==
    LET c == [calls[p] EXCEPT !.structured_data = structured_data,
                              !.block_input = block_input,
                              !.lead_data = MergeLead(structured_data, block_input)]
    IN  /\ calls[p].pc = "main"
        /\ calls[p].tools
        /\ calls[p].session_id = session_id
        /\ structured_data = session_lead_data[session_id]
        /\ \/ \* if not BOH_DATABASE_URL: return None
              /\ ~Configured
              /\ Return(p, c, None, "not_sent")
              /\ UNCHANGED <<_engine, _session_factory, pool_calls>>
           \/ \* get_boh_session(): the factory and the engine are made on first
              \* use (_get_engine passes its own check of BOH_DATABASE_URL)
              /\ Configured
              /\ ~FactoryMissing \/ ~EngineMissing \/ Truthy(BOH_DATABASE_URL)
              /\ _session_factory' = "session_factory"
              /\ _engine' = "engine"
              /\ pool_calls' =
                    IF FactoryMissing
                    THEN [pool_calls EXCEPT
                            !.create_async_engine = @ + (IF EngineMissing THEN 1 ELSE 0),
                            !.async_sessionmaker = @ + 1]
                    ELSE pool_calls
              /\ calls' = [calls EXCEPT ![p] = [c EXCEPT !.pc = "get_default_campaign"]]
              /\ UNCHANGED <<lead_submitted, history>>
           \/ \* _get_engine raises RuntimeError or create_async_engine raises:
              \* nothing is assigned
              /\ Configured
              /\ FactoryMissing /\ EngineMissing
              /\ Except(p, c, "get_boh_session")
              /\ pool_calls' =
                    IF Truthy(BOH_DATABASE_URL)
                    THEN [pool_calls EXCEPT !.create_async_engine = @ + 1, !.raised = @ + 1]
                    ELSE pool_calls
              /\ UNCHANGED <<_engine, _session_factory>>
        /\ UNCHANGED <<flow, session_lead_data,
                       BOH_DATABASE_URL, campaigns, leads, now, listening, notified>>

\* The campaign query returns; on a row, the key is built and the duplicate
\* query is sent.
get_default_campaign(p) ==
    LET c == calls[p]
        rows == DefaultCampaignRows
    IN  /\ c.pc = "get_default_campaign"
        /\ \/ \* one_or_none() is None: return None
              /\ rows = {}
              /\ Return(p, c, None, "no_route")
           \/ \* limit(1): any one matching row
              /\ \E row \in rows :
                    calls' = [calls EXCEPT ![p] =
                        [c EXCEPT !.pc = "check_duplicate",
                                  !.campaign_info = <<row.id, row.ticket_id, row.brand_id>>,
                                  !.timestamp = now,
                                  !.platform_lead_id = PlatformLeadId(c.session_id, now)]]
              /\ UNCHANGED <<lead_submitted, history>>
           \/ \* session.execute raises
              Except(p, c, "get_default_campaign")
        /\ UNCHANGED <<flow, session_lead_data,
                       BOH_DATABASE_URL, _engine, _session_factory, campaigns, leads,
                       now, listening, notified, pool_calls>>

\* The duplicate query returns; when no row matches, the row is built,
\* added to the session and the commit is sent.
check_duplicate(p) ==
    LET c == calls[p]
        matches == DuplicateRows("takeout", c.platform_lead_id)
        lead == LeadRow(uuid4(p), now, c.campaign_info,
                        map_loan_type_to_menu_item(Get(c.lead_data, "loan_type", None)),
                        c.platform_lead_id, FormData(c.lead_data),
                        Get(c.lead_data, "geo", None),
                        Metadata(c.lead_data, c.session_id))
    IN  /\ c.pc = "check_duplicate"
        /\ \/ \* scalar_one_or_none() is not None: return None
              /\ Cardinality(matches) = 1
              /\ Return(p, c, None, "duplicate")
           \/ \* stage_lead_direct up to await session.commit()
              /\ matches = {}
              /\ ~ContactRaises(c.lead_data)
              /\ calls' = [calls EXCEPT ![p] = [c EXCEPT !.pc = "commit", !.lead = <<lead>>]]
              /\ UNCHANGED <<lead_submitted, history>>
           \/ \* session.execute raises, or scalar_one_or_none raises on
              \* several rows
              Except(p, c, "check_duplicate")
           \/ \* contact.get raises
              /\ matches = {}
              /\ ContactRaises(c.lead_data)
              /\ Except(p, c, "contact")
        /\ UNCHANGED <<flow, session_lead_data,
                       BOH_DATABASE_URL, _engine, _session_factory, campaigns, leads,
                       now, listening, notified, pool_calls>>

\* Variant: the row is written outside the transaction (autocommit): it and
\* its notification stay when the commit raises.
stage_lead_direct_Autocommit(p) ==
    LET c == calls[p]
    IN  /\ c.pc = "commit"
        /\ leads' = leads \cup {c.lead[1]}
        /\ notified' = notified \cup {<<c.lead[1].id, s>> : s \in listening}
        /\ \/ Return(p, c, c.lead[1].id, "staged")
           \/ Except(p, c, "commit")
        /\ UNCHANGED <<flow, session_lead_data,
                       BOH_DATABASE_URL, _engine, _session_factory, campaigns, now,
                       listening, pool_calls>>

\* Variant: the notification is published by the writer before the commit
\* returns, also when the commit raises.
stage_lead_direct_NotifyFirst(p) ==
    LET c == calls[p]
    IN  /\ c.pc = "commit"
        /\ notified' = notified \cup {<<c.lead[1].id, s>> : s \in listening}
        /\ \/ /\ leads' = leads \cup {c.lead[1]}
              /\ Return(p, c, c.lead[1].id, "staged")
           \/ /\ Except(p, c, "commit")
              /\ UNCHANGED leads
        /\ UNCHANGED <<flow, session_lead_data,
                       BOH_DATABASE_URL, _engine, _session_factory, campaigns, now,
                       listening, pool_calls>>

\* Variant: the insert is an upsert on (platform, platform_lead_id): rows
\* already carrying the pair are replaced.
stage_lead_direct_Upsert(p) ==
    LET c == calls[p]
    IN  /\ c.pc = "commit"
        /\ \/ /\ leads' = {l \in leads : l.platform_lead_id # c.lead[1].platform_lead_id}
                            \cup {c.lead[1]}
              /\ notified' = notified \cup pg_notify(c.lead[1].id)
              /\ Return(p, c, c.lead[1].id, "staged")
           \/ /\ Except(p, c, "commit")
              /\ UNCHANGED <<leads, notified>>
        /\ UNCHANGED <<flow, session_lead_data,
                       BOH_DATABASE_URL, _engine, _session_factory, campaigns, now,
                       listening, pool_calls>>

\* session.commit() returns: the row is visible and the trigger has fired,
\* or the commit raised and the transaction is rolled back.
stage_lead_direct(p) ==
    LET c == calls[p]
    IN  /\ c.pc = "commit"
        /\ \/ /\ leads' = leads \cup {c.lead[1]}
              /\ notified' = notified \cup pg_notify(c.lead[1].id)
              /\ Return(p, c, c.lead[1].id, "staged")
           \/ /\ Except(p, c, "commit")
              /\ UNCHANGED <<leads, notified>>
        /\ UNCHANGED <<flow, session_lead_data,
                       BOH_DATABASE_URL, _engine, _session_factory, campaigns, now,
                       listening, pool_calls>>

\* The concurrent runs, each followed up to the await of its follow-up
\* response (SpecChat follows the runs to their end).
Next ==
    \/ \E p \in Calls, s \in Sessions : on_message(p, s)
    \/ \E p \in Calls : text_response(p)
    \/ \E p \in {q \in Calls : calls[q].pc = "main"}, lc \in LeadCases :
            send_lead_to_kitchen(p, calls[p].session_id, lc[1], lc[2])
    \/ \E p \in Calls : get_default_campaign(p)
    \/ \E p \in Calls : check_duplicate(p)
    \/ \E p \in Calls : stage_lead_direct(p)
    \/ Tick
    \/ \E s \in Subscribers : Listen(s)
    \/ \E s \in Subscribers : Unlisten(s)

Spec == Init /\ [][Next]_vars

----------------------------------------------------------------------------
(* One call alone, over every input and provisioning *)

InitWide ==
    /\ BOH_DATABASE_URL \in {None, "", "postgresql+asyncpg://boh"}
    /\ _engine = None
    /\ _session_factory = None
    /\ campaigns \in CampaignConfigsWide
    /\ leads = {KitchenLead}
    /\ calls = [p \in Calls |-> IdleCall]
    /\ now = 0
    /\ listening = Subscribers
    /\ notified = {}
    /\ lead_submitted = NotSubmitted
    /\ pool_calls = NoPoolCalls
    /\ flow = FlowsFinished
    /\ \E sd \in StructuredWide : session_lead_data = OneSession(sd)
    /\ history = IntroSaid

NextWide ==
    \/ on_message(1, SessionIds[1])
    \/ /\ calls[1].pc = "main"
       /\ \E bi \in InputWide :
            send_lead_to_kitchen(1, SessionIds[1], session_lead_data[SessionIds[1]], bi)
    \/ get_default_campaign(1)
    \/ check_duplicate(1)
    \/ stage_lead_direct(1)

SpecWide == InitWide /\ [][NextWide]_vars

----------------------------------------------------------------------------
(* The handler runs of the sessions to their end, with the history *)

InitChat ==
    /\ BOH_DATABASE_URL \in {None, "postgresql+asyncpg://boh"}
    /\ _engine = None
    /\ _session_factory = None
    /\ campaigns \in { {CampFacebook}, {CampOtherA, CampFacebook} }
    /\ leads = {KitchenLead}
    /\ calls = [p \in Calls |-> IdleCall]
    /\ now = 0
    /\ listening = {}
    /\ notified = {}
    /\ lead_submitted = NotSubmitted
    /\ pool_calls = NoPoolCalls
    /\ flow = FlowsFinished
    /\ session_lead_data = ButtonData
    /\ history = IntroSaid

NextChat ==
    \/ \E p \in Calls, s \in Sessions : on_message(p, s)
    \/ \E p \in Calls : text_response(p)
    \/ \E p \in {q \in Calls : calls[q].pc = "main"}, lc \in LeadCases :
            send_lead_to_kitchen(p, calls[p].session_id, lc[1], lc[2])
    \/ \E p \in Calls : get_default_campaign(p)
    \/ \E p \in Calls : check_duplicate(p)
    \/ \E p \in Calls : stage_lead_direct(p)
    \/ \E p \in Calls : followup(p)

SpecChat == InitChat /\ [][NextChat]_vars


----------------------------------------------------------------------------
(* One call alone, with a contact already in the session's lead_data *)

PrefilledContact == [name |-> "Ann", email |-> "ann@x.io", phone |-> "555-0100"]

\* lead_data of a session holding a contact before the model's input is
\* merged in (the button flow itself stores no contact)
StructuredPrefilled ==
    { [loan_type |-> "purchase", contact |-> Restrict(PrefilledContact, ks)] :
        ks \in SUBSET {"name", "email", "phone"} }

\* Tool inputs with a partial contact, or with none
InputContact ==
    {EmptyDict} \cup
    { [contact |-> Restrict([name |-> "Jane", email |-> "jane@x.io", phone |-> "555"], ks)] :
        ks \in SUBSET {"name", "email", "phone"} }

InitMerge ==
    /\ BOH_DATABASE_URL = "postgresql+asyncpg://boh"
    /\ _engine = None
    /\ _session_factory = None
    /\ campaigns = {CampOtherA, CampFacebook}
    /\ leads = {KitchenLead}
    /\ calls = [p \in Calls |-> IdleCall]
    /\ now = 0
    /\ listening = Subscribers
    /\ notified = {}
    /\ lead_submitted = NotSubmitted
    /\ pool_calls = NoPoolCalls
    /\ flow = FlowsFinished
    /\ \E sd \in StructuredPrefilled : session_lead_data = OneSession(sd)
    /\ history = IntroSaid

NextMerge ==
    \/ on_message(1, SessionIds[1])
    \/ /\ calls[1].pc = "main"
       /\ \E bi \in InputContact :
            send_lead_to_kitchen(1, SessionIds[1], session_lead_data[SessionIds[1]], bi)
    \/ get_default_campaign(1)
    \/ check_duplicate(1)
    \/ stage_lead_direct(1)

SpecMerge == InitMerge /\ [][NextMerge]_vars


----------------------------------------------------------------------------
(* The structured flow of a chat start, step by step *)

\* what the flow leaves alone
pipeline == <<BOH_DATABASE_URL, _engine, _session_factory, campaigns, leads, calls, now,
              listening, notified, pool_calls>>

\* start_conversation: the intro is appended to the history and sent
start_conversation(s) ==
    /\ history' = [history EXCEPT ![s] = Append(@, Intro)]
    /\ flow' = [flow EXCEPT ![s] = "conversation"]

\* start (cl.on_chat_start) up to the loan type prompt
start(s) ==
    /\ flow[s] = "new"
    /\ flow' = [flow EXCEPT ![s] = "ask_loan"]
    /\ history' = [history EXCEPT ![s] = << >>]
    /\ session_lead_data' = [session_lead_data EXCEPT ![s] = EmptyDict]
    /\ lead_submitted' = [lead_submitted EXCEPT ![s] = FALSE]
    /\ UNCHANGED pipeline

\* start, resumed by a loan type button or by the timeout
start_answered(s) ==
    /\ flow[s] = "ask_loan"
    /\ \/ \E loan_type \in LoanButtons :
            /\ session_lead_data' =
                    [session_lead_data EXCEPT ![s] = SetKey(@, "loan_type", loan_type)]
            /\ flow' = [flow EXCEPT ![s] = "ask_location"]
            /\ UNCHANGED history
       \/ /\ start_conversation(s)
          /\ UNCHANGED session_lead_data
    /\ UNCHANGED <<pipeline, lead_submitted>>

\* Variant: after the timeout the flow says the intro and goes on to the
\* timeline prompt.
ask_location_TimeoutGoesOn(s) ==
    /\ flow[s] = "ask_location"
    /\ \/ \E state \in GeoButtons \ {"other"} :
            /\ session_lead_data' = [session_lead_data EXCEPT ![s] = SetKey(@, "geo", state)]
            /\ flow' = [flow EXCEPT ![s] = "ask_timeline"]
            /\ UNCHANGED history
       \/ /\ flow' = [flow EXCEPT ![s] = "ask_state"]
          /\ UNCHANGED <<session_lead_data, history>>
       \/ /\ history' = [history EXCEPT ![s] = Append(@, Intro)]
          /\ flow' = [flow EXCEPT ![s] = "ask_timeline"]
          /\ UNCHANGED session_lead_data
    /\ UNCHANGED <<pipeline, lead_submitted>>

\* ask_location, resumed by a state button, by the "Other" button (the
\* free-text prompt follows) or by the timeout
ask_location(s) ==
    /\ flow[s] = "ask_location"
    /\ \/ \E state \in GeoButtons \ {"other"} :
            /\ session_lead_data' = [session_lead_data EXCEPT ![s] = SetKey(@, "geo", state)]
            /\ flow' = [flow EXCEPT ![s] = "ask_timeline"]
            /\ UNCHANGED history
       \/ /\ flow' = [flow EXCEPT ![s] = "ask_state"]
          /\ UNCHANGED <<session_lead_data, history>>
       \/ /\ start_conversation(s)
          /\ UNCHANGED session_lead_data
    /\ UNCHANGED <<pipeline, lead_submitted>>

\* ask_location, resumed by the free-text answer (normalised, and None when
\* it is no state code) or by the timeout of the free-text prompt (state is
\* still the payload of the "Other" button)
ask_location_text(s) ==
    /\ flow[s] = "ask_state"
    /\ \/ \E output \in TextAnswers :
            LET state == NormalizeState(output)
            IN  session_lead_data' =
                    [session_lead_data EXCEPT
                        ![s] = SetKey(@, "geo", IF state \in US_STATES THEN state ELSE None)]
       \/ session_lead_data' = [session_lead_data EXCEPT ![s] = SetKey(@, "geo", "other")]
    /\ flow' = [flow EXCEPT ![s] = "ask_timeline"]
    /\ UNCHANGED <<pipeline, lead_submitted, history>>

\* ask_timeline, resumed by a button or by the timeout
ask_timeline(s) ==
    /\ flow[s] = "ask_timeline"
    /\ \/ \E timeline \in TimelineButtons :
            session_lead_data' = [session_lead_data EXCEPT ![s] = SetKey(@, "timeline", timeline)]
       \/ UNCHANGED session_lead_data
    /\ flow' = [flow EXCEPT ![s] = "ask_budget"]
    /\ UNCHANGED <<pipeline, lead_submitted, history>>

\* ask_budget, resumed by a button or by the timeout; the intro follows
ask_budget(s) ==
    /\ flow[s] = "ask_budget"
    /\ \/ \E payload \in BudgetButtons :
            session_lead_data' =
                [session_lead_data EXCEPT
                    ![s] = SetKey(SetKey(@, "budget_min", payload[1]), "budget_max", payload[2])]
       \/ UNCHANGED session_lead_data
    /\ start_conversation(s)
    /\ UNCHANGED <<pipeline, lead_submitted>>

\* A session from its chat start, and its first message
InitFlow ==
    /\ BOH_DATABASE_URL = None
    /\ _engine = None
    /\ _session_factory = None
    /\ campaigns = {}
    /\ leads = {KitchenLead}
    /\ calls = [p \in Calls |-> IdleCall]
    /\ now = 0
    /\ listening = {}
    /\ notified = {}
    /\ lead_submitted = NotSubmitted
    /\ pool_calls = NoPoolCalls
    /\ flow = [s \in DOMAIN NotSubmitted |-> "new"]
    /\ session_lead_data = [s \in DOMAIN NotSubmitted |-> EmptyDict]
    /\ history = [s \in DOMAIN NotSubmitted |-> << >>]

FlowStep ==
    \/ start_answered(SessionIds[1])
    \/ ask_location(SessionIds[1])
    \/ ask_location_text(SessionIds[1])
    \/ ask_timeline(SessionIds[1])
    \/ ask_budget(SessionIds[1])

NextFlow ==
    \/ start(SessionIds[1])
    \/ start_answered(SessionIds[1])
    \/ ask_location(SessionIds[1])
    \/ ask_location_text(SessionIds[1])
    \/ ask_timeline(SessionIds[1])
    \/ ask_budget(SessionIds[1])
    \/ on_message(1, SessionIds[1])
    \/ text_response(1)

SpecFlow == InitFlow /\ [][NextFlow]_vars

\* Every prompt of the flow has a timeout: a pending prompt is resumed.
SpecFlowFair == SpecFlow /\ WF_vars(FlowStep)

----------------------------------------------------------------------------
(* Properties *)

\* the runs that called send_lead_to_kitchen
Started == {p \in Calls : calls[p].pc \notin {"idle", "main", "text"}}
Done == {p \in Calls : calls[p].pc = "done"}
\* the committed rows carrying a (platform, platform_lead_id) pair
RowsWithPair(platform, platform_lead_id) ==
    {l \in leads : l.platform = platform /\ l.platform_lead_id = platform_lead_id}
\* the committed row of call p, if any
RowsOf(p) == {l \in leads : l.id = UUIDs[p]}
NoDefaultCampaign == \A r \in campaigns : r.platform # "other"

\* C1: staging twice in sequence with the same (platform, platform_lead_id):
\* the first call returns the identifier of its row; a call whose duplicate
\* query runs when one row already carries its pair returns no identifier
\* (along the duplicate path unless a storage operation raised) and inserts
\* nothing, so that exactly one row carries the pair after the two calls.
C1_StagingIdempotent ==
    /\ [](\A p \in Done : calls[p].outcome = "staged" =>
            /\ calls[p].ret = UUIDs[p]
            /\ \E l \in RowsWithPair("takeout", calls[p].platform_lead_id) : l.id = calls[p].ret)
    /\ [](\A p, q \in Done :
            ( /\ p # q
              /\ calls[p].outcome = "staged"
              /\ calls[q].outcome = "duplicate"
              /\ calls[q].platform_lead_id = calls[p].platform_lead_id
              /\ \A r \in Started \ {p, q} : calls[r].platform_lead_id # calls[p].platform_lead_id )
            => /\ Cardinality(RowsWithPair("takeout", calls[p].platform_lead_id)) = 1
               /\ calls[q].ret = None
               /\ RowsOf(q) = {})
    /\ [][\A q \in Calls :
            ( /\ calls[q].pc = "check_duplicate"
              /\ calls'[q].pc # "check_duplicate"
              /\ Cardinality(RowsWithPair("takeout", calls[q].platform_lead_id)) = 1 )
            => /\ calls'[q].pc = "done"
               /\ calls'[q].ret = None
               /\ calls'[q].outcome \in {"duplicate", "failed"}
               /\ leads' = leads]_vars

\* C1 witness: a call staged a row and a later call with the same pair took
\* the duplicate path; one row carries the pair.
C1_Witness ==
    \E p, q \in Done :
        /\ calls[p].outcome = "staged"
        /\ calls[q].outcome = "duplicate"
        /\ calls[q].platform_lead_id = calls[p].platform_lead_id
        /\ Cardinality(RowsWithPair("takeout", calls[p].platform_lead_id)) = 1

\* C2: under any interleaving of two staging attempts with the same
\* (platform, platform_lead_id), at most one row with that pair exists.
C2_AtMostOneRowPerPair ==
    \A l1, l2 \in leads :
        (l1.platform = l2.platform /\ l1.platform_lead_id = l2.platform_lead_id) => l1 = l2

\* C3: with no campaign row of platform "other", a call on configured storage
\* returns no identifier (along the no-route path unless a storage operation
\* raised) and no step changes the lead rows.
C3_NoRoute ==
    /\ [](NoDefaultCampaign =>
            \A p \in Done : Configured =>
                /\ calls[p].ret = None
                /\ calls[p].outcome \in {"no_route", "failed"}
                /\ calls[p].error \in {None, "get_boh_session", "get_default_campaign"})
    /\ [][NoDefaultCampaign => leads' = leads]_vars

\* C3 witness: a call returned along the no-route path although a campaign
\* row (of another platform) exists.
C3_Witness ==
    \E p \in Done : calls[p].outcome = "no_route" /\ campaigns # {} /\ NoDefaultCampaign

\* C4: without a connection string every call returns the not-sent outcome,
\* no engine and no session factory is made, no row is written; this holds
\* after any number of calls.
C4_DegradedMode ==
    (BOH_DATABASE_URL \in {None, ""}) =>
        /\ _engine = None
        /\ _session_factory = None
        /\ leads = {KitchenLead}
        /\ notified = {}
        /\ \A p \in Started :
            /\ calls[p].pc = "done"
            /\ calls[p].ret = None
            /\ calls[p].outcome = "not_sent"
            /\ calls[p].error = None

\* C4 witness: the connection string is unset and every call has been made.
C4_Witness ==
    /\ BOH_DATABASE_URL \in {None, ""}
    /\ Done = Calls
    /\ \A p \in Calls : calls[p].outcome = "not_sent"

\* C5: a call never ends with an exception leaving send_lead_to_kitchen: an
\* ended call has returned a lead identifier or None, and a call in flight
\* always has a next step.
C5_NothingEscapes ==
    \A p \in Calls :
        /\ calls[p].pc \in {"idle", "main", "text",
                           "get_default_campaign", "check_duplicate", "commit", "done"}
        /\ calls[p].pc = "done" => calls[p].ret \in {None, UUIDs[p]}
        /\ calls[p].pc = "get_default_campaign" => ENABLED get_default_campaign(p)
        /\ calls[p].pc = "check_duplicate" => ENABLED check_duplicate(p)
        /\ calls[p].pc = "commit" => ENABLED stage_lead_direct(p)

\* C5 witness: an exception was raised at each of two different places and
\* both calls returned None.
C5_Witness ==
    \E p, q \in Done :
        /\ calls[p].error = "commit" /\ calls[p].ret = None
        /\ calls[q].error = "contact" /\ calls[q].ret = None

\* C6: what the caller receives for a storage-layer error differs from what
\* it receives for a duplicate, for no default campaign and for unconfigured
\* storage (for which send_lead_to_kitchen returns None).
C6_FailureDistinct ==
    \A p \in Done :
        calls[p].error \in {"get_boh_session", "get_default_campaign", "check_duplicate", "commit"}
        => /\ calls[p].ret # None
           /\ \A q \in Done : calls[q].outcome \in {"duplicate", "no_route", "not_sent"}
                                => calls[q].ret # calls[p].ret

\* C7: an attempt that ended with a storage-layer error left no row and no
\* notification of its own, and the step that ended it changed no lead row.
C7_NoPartialRow ==
    /\ [](\A p \in Done : calls[p].outcome = "failed" =>
            /\ RowsOf(p) = {}
            /\ \A n \in notified : n[1] # UUIDs[p])
    /\ [][\A p \in Calls :
            (calls[p].outcome # "failed" /\ calls'[p].outcome = "failed") => leads' = leads]_vars

\* C7 witness: the commit of an attempt raised.
C7_Witness ==
    \E p \in Done : calls[p].outcome = "failed" /\ calls[p].error = "commit"

\* C8: every notification delivered is for a committed row; an attempt that
\* failed or has not committed has none; a commit delivers one notification
\* to each subscriber connected at that moment and to no other.
C8_NotifyAfterCommit ==
    /\ [](\A n \in notified : \E l \in leads : l.id = n[1])
    /\ [](\A p \in Calls : RowsOf(p) = {} => \A n \in notified : n[1] # UUIDs[p])
    /\ [][\A p \in Calls :
            (calls[p].pc = "commit" /\ calls'[p].pc # "commit") =>
                IF calls'[p].outcome = "staged"
                THEN notified' = notified \cup {<<UUIDs[p], s>> : s \in listening}
                ELSE notified' = notified]_vars
    /\ [][notified' # notified => leads' # leads]_vars

\* C8 witness: one row was committed while the subscriber was connected and
\* notified, another while it was not.
C8_Witness ==
    \E p, q \in Done :
        /\ calls[p].outcome = "staged" /\ <<UUIDs[p], "kitchen">> \in notified
        /\ calls[q].outcome = "staged" /\ <<UUIDs[q], "kitchen">> \notin notified

\* C9: each top-level field of the merged lead is the tool input's value
\* when the tool input has the field, the button data's value when only the
\* button data have it, and is unset when neither has it.
C9_MergePrecedence ==
    \A p \in Started :
        LET sd == calls[p].structured_data
            bi == calls[p].block_input
            merged == calls[p].lead_data
        IN  \A f \in {"loan_type", "geo", "timeline", "budget_min", "budget_max", "contact"} :
                /\ f \in DOMAIN bi => (f \in DOMAIN merged /\ merged[f] = bi[f])
                /\ (f \notin DOMAIN bi /\ f \in DOMAIN sd) =>
                        (f \in DOMAIN merged /\ merged[f] = sd[f])
                /\ (f \notin DOMAIN bi /\ f \notin DOMAIN sd) => f \notin DOMAIN merged

\* C9 witness: button data {loan_type: purchase, geo: TX} and tool input
\* {loan_type: cashout, contact: {name: Jane}} give loan_type cashout, geo TX.
C9_Witness ==
    \E p \in Started :
        /\ calls[p].structured_data = [loan_type |-> "purchase", geo |-> "TX"]
        /\ calls[p].block_input = [loan_type |-> "cashout", contact |-> [name |-> "Jane"]]
        /\ calls[p].lead_data["loan_type"] = "cashout"
        /\ calls[p].lead_data["geo"] = "TX"

\* the classification table, as the claim states it
ExpectedMenuItem(loan_type) ==
    CASE loan_type = "purchase" -> "dscr_purchase"
      [] loan_type = "cashout" -> "dscr_cashout"
      [] loan_type = "refinance" -> "dscr_refi"
      [] OTHER -> "dscr_refi"

\* C10: map_loan_type_to_menu_item gives one of the three menu items for
\* every loan type (purchase, cashout, refinance mapped, anything else,
\* missing or empty to dscr_refi), and every staged row's menu_item is the
\* function of the merged lead's loan_type.
C10_Classification ==
    /\ \A lt \in {"purchase", "cashout", "refinance", "refi", "garbage", "", None} :
            /\ map_loan_type_to_menu_item(lt) = ExpectedMenuItem(lt)
            /\ map_loan_type_to_menu_item(lt) \in {"dscr_purchase", "dscr_cashout", "dscr_refi"}
    /\ \A p \in Done : calls[p].outcome = "staged" =>
            \A l \in RowsOf(p) :
                l.menu_item =
                    ExpectedMenuItem(IF "loan_type" \in DOMAIN calls[p].lead_data
                                     THEN calls[p].lead_data["loan_type"] ELSE None)

\* C10 witness: a row staged from the button value "refi" carries dscr_refi.
C10_Witness ==
    \E p \in Done :
        /\ calls[p].outcome = "staged"
        /\ "loan_type" \in DOMAIN calls[p].lead_data
        /\ calls[p].lead_data["loan_type"] = "refi"
        /\ \E l \in RowsOf(p) : l.menu_item = "dscr_refi"

\* the rows this pipeline inserted
TakeoutRows == {l \in leads : l.platform = "takeout"}

\* C11: a row becomes visible with an id no existing row has, platform
\* "takeout", status "staged", captured_at = staged_at = the instant read
\* when the row was constructed, delivered_at None, is_waste false, no waste
\* reason or details, quarters_sold 0 and quarters_remaining 4.
C11_InitialShape ==
    /\ [][\A p \in Calls :
            (calls[p].pc = "check_duplicate" /\ calls'[p].pc = "commit") =>
                /\ calls'[p].lead[1].captured_at = now
                /\ calls'[p].lead[1].staged_at = now]_vars
    /\ [][\A l \in leads' \ leads :
            /\ \A k \in leads : k.id # l.id
            /\ \E p \in Calls : calls[p].pc = "commit" /\ calls[p].lead = <<l>>
            /\ l.platform = "takeout"
            /\ l.status = "staged"
            /\ l.captured_at = l.staged_at
            /\ l.staged_at <= now
            /\ l.delivered_at = None
            /\ l.is_waste = FALSE
            /\ l.waste_reason = None
            /\ l.waste_details = None
            /\ l.quarters_sold = 0
            /\ l.quarters_remaining = 4]_vars

\* C11 witness: two rows of the pipeline are visible, with different ids,
\* the later one constructed after the clock advanced.
C11_Witness ==
    \E l1, l2 \in TakeoutRows :
        /\ l1.id # l2.id
        /\ l1.staged_at < l2.staged_at
        /\ l2.status = "staged" /\ l2.quarters_remaining = 4

\* the campaign rows whose (id, ticket_id, brand_id) a lead row carries
RouteOf(l) ==
    {r \in campaigns : <<r.id, r.ticket_id, r.brand_id>> =
                       <<l.campaign_id, l.ticket_id, l.brand_id>>}

\* C12: every row of the pipeline carries a campaign_id, ticket_id and
\* brand_id, none of them None, that are the id, ticket_id and brand_id of
\* one single campaign row, whose platform is "other"; and the triple a call
\* resolved is that of a campaign row of platform "other" present then.
C12_Routing ==
    /\ \A l \in TakeoutRows :
            /\ l.campaign_id # None /\ l.ticket_id # None /\ l.brand_id # None
            /\ Cardinality(RouteOf(l)) = 1
            /\ \A r \in RouteOf(l) : r.platform = "other"
    /\ \A p \in Calls : calls[p].campaign_info # NoRow =>
            \E r \in campaigns :
                /\ r.platform = "other"
                /\ calls[p].campaign_info = <<r.id, r.ticket_id, r.brand_id>>

\* C12 witness: with two campaigns of platform "other" provisioned, a row
\* was staged with the triple of the second.
C12_Witness ==
    /\ {CampOtherA, CampOtherB} \subseteq campaigns
    /\ \E l \in TakeoutRows : RouteOf(l) = {CampOtherB}

\* C13: no step removes or changes a lead row or touches the campaigns; a
\* step adds at most one lead row, with delivered_at None; a call adds one
\* row when it returns an identifier and none otherwise; delivered_at of the
\* pipeline's rows stays None.
C13_Frame ==
    /\ [][/\ leads \subseteq leads'
          /\ campaigns' = campaigns
          /\ Cardinality(leads' \ leads) <= 1
          /\ \A l \in leads' \ leads : l.delivered_at = None]_vars
    /\ [](\A p \in Calls :
            Cardinality(RowsOf(p)) = (IF calls[p].outcome = "staged" THEN 1 ELSE 0))
    /\ [](\A l \in TakeoutRows : l.delivered_at = None)
    /\ [](KitchenLead \in leads)

\* C13 witness: one call staged its row, another ended without one, and the
\* row of the other channel is as it was.
C13_Witness ==
    \E p, q \in Done :
        /\ calls[p].outcome = "staged"
        /\ calls[q].outcome \in {"duplicate", "failed"}
        /\ leads = {KitchenLead} \cup RowsOf(p)
        /\ Cardinality(leads) = 2

\* the rows of the pipeline staged for a session
SessionRows(s) == {l \in TakeoutRows : l.metadata_json.session_id = s}

\* C14: for every session, at most one row whose metadata session_id is that
\* session is ever staged, whatever the interleaving of the handler runs.
C14_OneLeadPerSession ==
    \A s \in Sessions : Cardinality(SessionRows(s)) <= 1

\* C15: within one call, the campaign query is reached only from the entry
\* with the storage configured, the duplicate query only with the campaign
\* resolved to the triple of an "other" campaign, the commit only after the
\* duplicate query found no row with the call's pair; the row set changes
\* only by the commit of a call that went through these steps; a call that
\* returned (no route and duplicate included) does nothing more.
C15_GatingOrder ==
    /\ [][\A p \in Calls :
            /\ (calls[p].pc # "get_default_campaign" /\ calls'[p].pc = "get_default_campaign")
                    => calls[p].pc = "main" /\ Truthy(BOH_DATABASE_URL)
            /\ (calls[p].pc # "check_duplicate" /\ calls'[p].pc = "check_duplicate")
                    => /\ calls[p].pc = "get_default_campaign"
                       /\ \E r \in campaigns :
                            /\ r.platform = "other"
                            /\ calls'[p].campaign_info = <<r.id, r.ticket_id, r.brand_id>>
            /\ (calls[p].pc # "commit" /\ calls'[p].pc = "commit")
                    => /\ calls[p].pc = "check_duplicate"
                       /\ calls[p].campaign_info # NoRow
                       /\ RowsWithPair("takeout", calls[p].platform_lead_id) = {}
            /\ calls[p].pc = "done" => calls'[p] = calls[p]]_vars
    /\ [][leads' # leads =>
            \E p \in Calls : /\ calls[p].pc = "commit"
                             /\ calls'[p].outcome = "staged"
                             /\ leads' = leads \cup {calls[p].lead[1]}]_vars
    /\ [](\A p \in Done : calls[p].outcome \in {"no_route", "duplicate", "not_sent"} =>
            RowsOf(p) = {})

\* C15 witness: in one run of the program a call staged its row, another
\* ended on the duplicate path without a row.
C15_Witness ==
    \E p, q \in Done :
        /\ calls[p].outcome = "staged" /\ RowsOf(p) # {}
        /\ calls[q].outcome = "duplicate" /\ RowsOf(q) = {}
        /\ calls[q].timestamp = calls[p].timestamp

\* the calls that passed the configuration check of send_lead_to_kitchen
PassedConfigCheck == {p \in Started : calls[p].outcome # "not_sent"}

\* C16, as stated: create_async_engine is called at most once and the
\* session factory is created at most once.
C16_CalledOnce ==
    /\ pool_calls.create_async_engine <= 1
    /\ pool_calls.async_sessionmaker <= 1

\* C16, amended: at most one engine and at most one session factory are ever
\* constructed; create_async_engine is called again only while no engine
\* exists, that is when every earlier call of it raised; every session comes
\* from the one factory; nothing is constructed or attempted before a call
\* passed the configuration check.
C16_ConstructOnce ==
    /\ pool_calls.create_async_engine - pool_calls.raised <= 1
    /\ pool_calls.async_sessionmaker <= 1
    /\ (_engine = None) <=> (pool_calls.create_async_engine = pool_calls.raised)
    /\ (_session_factory = None) <=> (pool_calls.async_sessionmaker = 0)
    /\ \A p \in Calls : calls[p].pc \in {"get_default_campaign", "check_duplicate", "commit"}
            => _session_factory # None /\ _engine # None
    /\ PassedConfigCheck = {} =>
            /\ pool_calls = NoPoolCalls
            /\ _engine = None /\ _session_factory = None

\* C16 witness: create_async_engine raised for one call, a later call made
\* the engine and the factory, and a session of that factory is open.
C16_Witness ==
    /\ pool_calls.create_async_engine = 2
    /\ pool_calls.raised = 1
    /\ pool_calls.async_sessionmaker = 1
    /\ \E p \in Calls : calls[p].pc = "commit"

\* the calls that built their platform_lead_id
Keyed == {p \in Calls : calls[p].platform_lead_id # NoRow}

C18_RetryNewKey ==
    \A p, q \in Keyed :
        ( /\ p # q
          /\ calls[p].outcome = "staged"
          /\ calls[q].session_id = calls[p].session_id
          /\ calls[q].lead_data = calls[p].lead_data
          /\ calls[q].timestamp # calls[p].timestamp
          /\ \A r \in Keyed \ {q} :
                calls[r].session_id = calls[q].session_id
                    => calls[r].timestamp # calls[q].timestamp )
        => /\ calls[q].platform_lead_id # calls[p].platform_lead_id
           /\ calls[q].outcome # "duplicate"
           /\ calls[q].outcome = "staged" =>
                /\ RowsOf(p) \cup RowsOf(q) \subseteq SessionRows(calls[p].session_id)
                /\ Cardinality(SessionRows(calls[p].session_id)) >= 2

\* C18 witness: the second call started to build its row after the first had
\* committed, and both rows of the session are in the table.
C18_Witness ==
    \E p, q \in Done :
        /\ p # q
        /\ calls[p].outcome = "staged" /\ calls[q].outcome = "staged"
        /\ calls[q].session_id = calls[p].session_id
        /\ calls[q].lead_data = calls[p].lead_data
        /\ calls[q].timestamp > calls[p].timestamp
        /\ \E lp \in RowsOf(p), lq \in RowsOf(q) :
              /\ lp.platform_lead_id # lq.platform_lead_id
              /\ lp.form_data = lq.form_data

\* C19: a session's lead_submitted is True only if some call made for the
\* session returned a lead identifier.
C19_MarkFollowsSuccess ==
    \A s \in Sessions : lead_submitted[s] =>
        \E p \in Done : calls[p].session_id = s /\ calls[p].ret # None

\* The flag as the code keeps it: True once a call made for the session
\* returned, with or without an identifier; it is never reset within the
\* session, and a run that starts then is offered no tool.
LeadSubmittedAsCoded ==
    /\ [](\A s \in Sessions : lead_submitted[s] <=>
            \E p \in Done : calls[p].session_id = s)
    /\ [][\A s \in Sessions : lead_submitted[s] => lead_submitted'[s]]_vars
    /\ [][\A p \in Calls :
            (calls[p].pc = "idle" /\ calls'[p].pc = "main"
                /\ lead_submitted[calls'[p].session_id]) => ~calls'[p].tools]_vars

\* the value of a key of the merged lead of call p, None when absent
LeadValue(p, k) ==
    IF k \in DOMAIN calls[p].lead_data THEN calls[p].lead_data[k] ELSE None

\* the value of a contact field of the merged lead of call p, "" when the
\* field or the contact is absent
ContactValue(p, k) ==
    IF "contact" \notin DOMAIN calls[p].lead_data THEN ""
    ELSE IF k \in DOMAIN calls[p].lead_data["contact"]
         THEN calls[p].lead_data["contact"][k] ELSE ""

\* form_data and the copied metadata of the row of call p are as claimed
PayloadCopied(p, l) ==
    /\ DOMAIN l.form_data = {"name", "email", "phone"}
    /\ \A k \in {"name", "email", "phone"} : l.form_data[k] = ContactValue(p, k)
    /\ {"budget_min", "budget_max", "timeline", "loan_type", "session_id"}
            \subseteq DOMAIN l.metadata_json
    /\ \A k \in {"budget_min", "budget_max", "timeline", "loan_type"} :
            l.metadata_json[k] = LeadValue(p, k)
    /\ l.metadata_json["session_id"] = calls[p].session_id

\* C20, as stated: form_data has the keys name, email and phone, each the
\* contact's value or ""; the metadata holds budget_min, budget_max,
\* timeline, loan_type and session_id as in the merged lead, and geo equal
\* to the merged lead's geo.
C20_PayloadShape ==
    \A p \in Done : \A l \in RowsOf(p) :
        /\ PayloadCopied(p, l)
        /\ (IF "geo" \in DOMAIN l.metadata_json THEN l.metadata_json["geo"] ELSE None)
                = LeadValue(p, "geo")

\* C20, amended: as stated, except that the metadata holds geo, equal to
\* the merged lead's geo, exactly when that geo is a non-empty string, and
\* holds no geo when the merged lead's geo is absent, None or empty.
C20_PayloadShapeGeoIfNonEmpty ==
    \A p \in Done : \A l \in RowsOf(p) :
        /\ PayloadCopied(p, l)
        /\ ("geo" \in DOMAIN l.metadata_json)
                <=> (LeadValue(p, "geo") # None /\ LeadValue(p, "geo") # "")
        /\ "geo" \in DOMAIN l.metadata_json => l.metadata_json["geo"] = LeadValue(p, "geo")

\* C20 witness: a row staged from a merged lead with an empty geo and no
\* contact: the metadata has no geo, the three form fields are empty.
C20_Witness ==
    \E p \in Done : \E l \in RowsOf(p) :
        /\ "contact" \notin DOMAIN calls[p].lead_data
        /\ LeadValue(p, "geo") = ""
        /\ "geo" \notin DOMAIN l.metadata_json
        /\ l.form_data = [name |-> "", email |-> "", phone |-> ""]
        /\ l.metadata_json["budget_min"] # None

IntroCount(s) == Cardinality({i \in DOMAIN history[s] : history[s][i] = Intro})

C23_ValidatedLocation ==
    \A s \in DOMAIN session_lead_data :
        "geo" \in DOMAIN session_lead_data[s] =>
            \/ session_lead_data[s]["geo"] = None
            \/ session_lead_data[s]["geo"] \in US_STATES

\* C24: in every session's history, an assistant entry holding a tool_use
\* block is immediately followed by the user entry holding the tool_result
\* with its id, a tool_result is immediately preceded by that tool_use, and
\* a run that called send_lead_to_kitchen has left both, whatever the call
\* returned.
C24_ToolUseProtocol ==
    /\ \A s \in DOMAIN history : \A i \in DOMAIN history[s] :
            /\ history[s][i][2] = "tool_use" =>
                    /\ i < Len(history[s])
                    /\ history[s][i + 1] = ToolResult(history[s][i][3])
            /\ history[s][i][2] = "tool_result" =>
                    /\ i > 1
                    /\ history[s][i - 1] = ToolUse(history[s][i][3])
    /\ \A p \in Calls : \A s \in DOMAIN history :
            Cardinality({i \in DOMAIN history[s] : history[s][i] = ToolUse(p)})
                = (IF calls[p].pc = "done" /\ calls[p].session_id = s THEN 1 ELSE 0)

\* C24 witness: two runs of one session interleaved, the second message
\* saved before the first run's tool use; one call returned an identifier,
\* the other none; both pairs are in the history, and a follow-up text
\* after them.
C24_Witness ==
    \E s \in Sessions :
        /\ Len(history[s]) >= 8
        /\ SubSeq(history[s], 1, 5) =
                <<Intro, UserMessage(1), UserMessage(2), ToolUse(2), ToolResult(2)>>
        /\ SubSeq(history[s], 6, 8) = <<AssistantText(2), ToolUse(1), ToolResult(1)>>
        /\ calls[1].ret = None
        /\ calls[2].ret # None

====
